---- MODULE Spec2Model ----
(***************************************************************************)
(* A model of d3an/backtest-system: the order execution engine             *)
(* (src/execution.py), the equity-curve ledger (src/stats.py), the         *)
(* Reversal strategy (src/strategies/reversal.py) and the replay loop      *)
(* (src/backtest.py).                                                      *)
(*                                                                         *)
(* Conventions.                                                            *)
(*  - Python's None / pandas' NaN is the empty tuple <<>>; a set value v   *)
(*    is the one-element tuple <<v>>.                                      *)
(*  - Dates are day numbers 1..MaxDate of a calendar whose day 1 is a      *)
(*    Wednesday.                                                           *)
(*  - Prices, cash and commissions are integers.  The "from Open" and      *)
(*    "Perf Week" columns hold fractions in the source; the model holds    *)
(*    them in percent (0.25 is 25), and every snapshot row is chosen so    *)
(*    that close / (1 + from Open) is an integer, so that the float        *)
(*    division of the source is exact in the model.                        *)
(*  - An order object is an index into the arena `orders`; the order book  *)
(*    buckets are sequences of such indices (Python lists of references).  *)
(*  - A raised exception is recorded in `raised`; the state changes made   *)
(*    before the raise are kept, as in Python.                             *)
(***************************************************************************)
EXTENDS Integers, Sequences, FiniteSets, TLC

VARIABLES
    orders,           \* every Order object constructed so far (the arena)
    order_book,       \* BacktestBroker.order_book: action -> status -> list
    commission,       \* BacktestBroker.commission: the injected function (its kind)
    call,             \* the last broker call and its arguments
    executed_orders,  \* the list the last execute_orders call built
    raised,           \* the exception the last call raised, or "none"
    equity_curve,     \* StatsHandler.equity_curve: the rows, in position order
    portfolio,        \* Reversal.portfolio: the rows, in position order
    watchlist,        \* Reversal.watchlist: the rows, in position order
    current_date,     \* Backtest.current_date
    start_date,       \* Backtest.start_date
    end_date,         \* Backtest.end_date
    pc,               \* where Backtest.run is: "running", "done" or "aborted"
    visited,          \* the dates Strategy.next has been called with, in order
    n_fills,          \* how many update_on_order calls have been made
    fills             \* the update_on_order calls made directly: date and order

vars == <<orders, order_book, commission, call, executed_orders, raised,
          equity_curve, portfolio, watchlist, current_date, start_date,
          end_date, pc, visited, n_fills, fills>>

brokerVars == <<orders, order_book, commission, call, executed_orders, raised>>
statsVars == <<equity_curve, n_fills, fills>>
strategyVars == <<portfolio, watchlist>>
runVars == <<current_date, start_date, end_date, pc, visited>>

----------------------------------------------------------------------------
(* Bounds *)

MaxDate == 4
MaxOrders == 2
MaxFills == 3

Dates == 1..MaxDate

----------------------------------------------------------------------------
(* Shared values *)

None == <<>>
Some(v) == <<v>>

Range(seq) == {seq[i] : i \in 1..Len(seq)}

ActionsBuyFirst == <<"BUY", "SELL">>

\* `for action in Action`: the members in definition order.
Actions == <<"SELL", "BUY">>
Statuses == {"OPEN", "COMPLETE", "CANCELLED"}

\* bdate_range keeps Monday..Friday; Weekday 0 is Monday, day 1 is a Wednesday.
Weekday(dt) == (dt + 1) % 7
is_business_day(dt) == Weekday(dt) < 5

----------------------------------------------------------------------------
(* Market data: the cleaned snapshot, indexed by ticker, or None *)

Row(price, from_open, volume, market_cap, perf_year, pe, perf_week) ==
    [Price |-> price, FromOpen |-> from_open, Volume |-> volume,
     MarketCap |-> market_cap, PerfYear |-> perf_year, PE |-> pe,
     PerfWeek |-> perf_week]

NoData == [frame |-> FALSE, rows |-> [t \in {} |-> 0]]
Frame(rows) == [frame |-> TRUE, rows |-> rows]

SnapshotUp ==
    Frame([t \in {"A", "B"} |->
        IF t = "A" THEN Row(50, 25, 2000000, 300000, -5, 10, 12)
                   ELSE Row(20, 0, 500000, 300000, -5, 10, 0)])
SnapshotDown ==
    Frame([t \in {"A"} |-> Row(40, -20, 2000000, 300000, -5, 10, 0)])

Snapshots == {SnapshotUp, SnapshotDown}

\* data.loc[ticker, column] raises AttributeError on None and KeyError on a
\* ticker that is not in the index.
LookupError(data, ticker) ==
    IF ~data.frame THEN "AttributeError"
    ELSE IF ticker \notin DOMAIN data.rows THEN "KeyError"
    ELSE "none"

ClosePrice(data, ticker) == data.rows[ticker].Price

OpenPriceAsClose(data, ticker) == data.rows[ticker].Price

\* open_price = close_price / (1 + data.loc[ticker, "from Open"])
OpenPrice(data, ticker) ==
    (data.rows[ticker].Price * 100) \div (100 + data.rows[ticker].FromOpen)

----------------------------------------------------------------------------
(* Orders *)

NewOrder(kind, dt, action, ticker, quantity, limit_price) ==
    [kind |-> kind, initiated_at |-> dt, executed_at |-> None,
     action |-> action, status |-> "OPEN", ticker |-> ticker,
     quantity |-> quantity, fill_price |-> None, commission_paid |-> 0,
     limit_price |-> limit_price]

MarketOrder(dt, action, ticker, quantity) ==
    NewOrder("Market", dt, action, ticker, quantity, None)
LimitOrder(dt, action, ticker, quantity, limit_price) ==
    NewOrder("Limit", dt, action, ticker, quantity, Some(limit_price))
StopLimitOrder(dt, action, ticker, quantity, limit_price) ==
    NewOrder("StopLimit", dt, action, ticker, quantity, Some(limit_price))

----------------------------------------------------------------------------
(* BacktestBroker *)

EmptyBook ==
    [a \in {"BUY", "SELL"} |-> [s \in Statuses |-> <<>>]]

CommissionKinds == {"none", "per_share"}

\* The injected commission(quantity, fill_price).
Commission(kind, quantity, fill_price) ==
    IF kind = "per_share" THEN quantity ELSE 0

verify_funds_no_commission(kind, quantity, fill_price, cash) ==
    quantity * fill_price <= cash

verify_funds(kind, quantity, fill_price, cash) ==
    quantity * fill_price + Commission(kind, quantity, fill_price) <= cash

\* list.remove(x): drop the first element equal to x.
RECURSIVE Remove(_, _)
Remove(list, x) ==
    IF list = <<>> THEN <<>>
    ELSE IF Head(list) = x THEN Tail(list)
    ELSE <<Head(list)>> \o Remove(Tail(list), x)

SkipsOrderLaterOnly(order, date) == order.initiated_at > date

\* `if order.initiated_at >= current_date: continue`
SkipsOrder(order, date) == order.initiated_at >= date

LimitInRangeNoUpper(open_price, limit_price, close_price) ==
    open_price <= limit_price

LimitInRange(open_price, limit_price, close_price) ==
    open_price <= limit_price /\ limit_price <= close_price

\* The price an eligible order fills at, or None when it stays OPEN.
FillPrice(order, data, cash, kind) ==
    LET open_price  == OpenPrice(data, order.ticker)
        close_price == ClosePrice(data, order.ticker)
    IN  IF order.kind = "Market"
           /\ verify_funds(kind, order.quantity, open_price, cash)
        THEN Some(open_price)
        ELSE IF order.kind = "Limit"
                /\ verify_funds(kind, order.quantity, order.limit_price[1], cash)
                /\ LimitInRange(open_price, order.limit_price[1], close_price)
        THEN order.limit_price
        ELSE None

FillUndated(st, id, action, price, date, kind) ==
    LET o == st.orders[id]
        filled == [o EXCEPT !.fill_price = Some(price),
                            !.status = "COMPLETE",
                            !.commission_paid = Commission(kind, o.quantity, price)]
    IN  [st EXCEPT
            !.orders[id] = filled,
            !.order_book[action]["OPEN"] = Remove(@, id),
            !.order_book[action]["COMPLETE"] = Append(@, id),
            !.executed_orders = Append(@, id)]

FillKeepsOpen(st, id, action, price, date, kind) ==
    LET o == st.orders[id]
        filled == [o EXCEPT !.fill_price = Some(price),
                            !.executed_at = Some(date),
                            !.status = "COMPLETE",
                            !.commission_paid = Commission(kind, o.quantity, price)]
    IN  [st EXCEPT
            !.orders[id] = filled,
            !.order_book[action]["COMPLETE"] = Append(@, id),
            !.executed_orders = Append(@, id)]

\* The fill of one order: remove it from OPEN, set its fields, append it to
\* COMPLETE and to the result list.
Fill(st, id, action, price, date, kind) ==
    LET o == st.orders[id]
        filled == [o EXCEPT !.fill_price = Some(price),
                            !.executed_at = Some(date),
                            !.status = "COMPLETE",
                            !.commission_paid = Commission(kind, o.quantity, price)]
    IN  [st EXCEPT
            !.orders[id] = filled,
            !.order_book[action]["OPEN"] = Remove(@, id),
            !.order_book[action]["COMPLETE"] = Append(@, id),
            !.executed_orders = Append(@, id)]

\* One pass of the inner loop body.
ExecuteOne(st, id, action, data, date, cash, kind) ==
    LET o == st.orders[id]
    IN  IF st.raised # "none" THEN st
        ELSE IF SkipsOrder(o, date) THEN st
        ELSE IF LookupError(data, o.ticker) # "none"
        THEN [st EXCEPT !.raised = LookupError(data, o.ticker)]
        ELSE LET price == FillPrice(o, data, cash, kind)
             IN  IF price = None THEN st
                 ELSE Fill(st, id, action, price[1], date, kind)

RECURSIVE ExecuteBucket(_, _, _, _, _, _, _)
ExecuteBucket(st, ids, action, data, date, cash, kind) ==
    IF ids = <<>> THEN st
    ELSE ExecuteBucket(ExecuteOne(st, Head(ids), action, data, date, cash, kind),
                       Tail(ids), action, data, date, cash, kind)

\* `for action in Action`: the Enum iterates in definition order, SELL then
\* BUY; the inner loop iterates over a copy of the OPEN bucket.
RECURSIVE ExecuteActions(_, _, _, _, _, _)
ExecuteActions(st, actions, data, date, cash, kind) ==
    IF actions = <<>> THEN st
    ELSE LET a == Head(actions)
         IN  ExecuteActions(
                 ExecuteBucket(st, st.order_book[a]["OPEN"], a, data, date, cash, kind),
                 Tail(actions), data, date, cash, kind)

\* BacktestBroker.execute_orders on the broker state (orders, order_book).
execute_orders(os, book, data, date, cash, kind) ==
    LET st0 == [orders |-> os, order_book |-> book,
                executed_orders |-> <<>>, raised |-> "none"]
    IN  IF ~is_business_day(date) THEN st0
        ELSE ExecuteActions(st0, Actions, data, date, cash, kind)

\* BacktestBroker.place_order of a freshly constructed order.
place_order(os, book, order) ==
    [orders |-> Append(os, order),
     order_book |-> [book EXCEPT ![order.action]["OPEN"] = Append(@, Len(os) + 1)]]

----------------------------------------------------------------------------
(* StatsHandler *)

\* The index label of the row __init__ writes: the string "Date", which is
\* no date.
DateLabel == 0

LedgerRow(label, date, cash, equity, total, commission_paid) ==
    [label |-> label, Date |-> date, Cash |-> cash, Equity |-> equity,
     TotalValue |-> total, CommissionPaid |-> commission_paid]

StatsHandler(date, cash) ==
    <<LedgerRow(DateLabel, date, cash, 0, cash, 0)>>

TotalOfCashOnly(cash, equity) == cash

\* "Total Value": updated_cash + updated_equity
TotalOf(cash, equity) == cash + equity

\* equity_curve.loc[label] = row: overwrite the row with that label in
\* place, or append a new row.
SetLoc(curve, row) ==
    IF \E i \in 1..Len(curve) : curve[i].label = row.label
    THEN [i \in 1..Len(curve) |->
             IF curve[i].label = row.label THEN row ELSE curve[i]]
    ELSE Append(curve, row)

CashKeepsCommission(cash, order) == cash

\* Line 32: the commission comes out of the cash.
LessCommission(cash, order) == cash - order.commission_paid

FillValuePerShare(order) == order.fill_price[1]

\* order.quantity * order.fill_price
FillValue(order) == order.quantity * order.fill_price[1]

update_on_order(curve, date, order) ==
    LET last  == curve[Len(curve)]
        value == FillValue(order)
        cash0 == LessCommission(last.Cash, order)
        updated_commission == last.CommissionPaid + order.commission_paid
        updated_cash ==
            IF order.action = "SELL" THEN cash0 + value
            ELSE IF order.action = "BUY" THEN cash0 - value
            ELSE cash0
        updated_equity ==
            IF order.action = "SELL" THEN last.Equity - value
            ELSE IF order.action = "BUY" THEN last.Equity + value
            ELSE last.Equity
    IN  SetLoc(curve, LedgerRow(date, date, updated_cash, updated_equity,
                                TotalOf(updated_cash, updated_equity),
                                updated_commission))

----------------------------------------------------------------------------
(* Reversal: the strategy's tables *)

max_watchlist_days == 6
MinMarketCap == 200000
MinPE == 5
MinVolume == 1000000
ExitPerfWeek == 10
BuyQuantity == 100

RECURSIVE GCD(_, _)
GCD(a, b) == IF b = 0 THEN a ELSE GCD(b, a % b)

Abs(n) == IF n < 0 THEN -n ELSE n

Sign(n) == IF n < 0 THEN -1 ELSE IF n > 0 THEN 1 ELSE 0

\* A float the model keeps exact: numerator over denominator, in lowest terms
\* with a positive denominator.  A zero denominator is what float64 division
\* by zero gives: infinity by its sign, or NaN.
Rat(n, d) ==
    IF d = 0 THEN [n |-> Sign(n), d |-> 0]
    ELSE [n |-> (Sign(d) * n) \div GCD(Abs(n), Abs(d)),
          d |-> Abs(d) \div GCD(Abs(n), Abs(d))]

\* Arithmetic of pandas cells: NaN in, NaN out.
Times(a, b) == IF a = None \/ b = None THEN None ELSE Some(a[1] * b[1])

\* The index labels of the frames, in the order sort_values("Ticker") gives
\* them (string order).
LabelRank(label) ==
    CASE label = "" -> 0
      [] label = "A" -> 1
      [] label = "B" -> 2
      [] label = "Gain ($)" -> 3
      [] label = "Market Value" -> 4

Labels(frame) == {frame[i].label : i \in 1..Len(frame)}

RowOf(frame, label) ==
    frame[CHOOSE i \in 1..Len(frame) : frame[i].label = label]

\* frame.drop([label])
Drop(frame, label) == SelectSeq(frame, LAMBDA r : r.label # label)

\* frame.loc[label] = row: overwrite in place, or append.
SetRow(frame, row) ==
    IF row.label \in Labels(frame)
    THEN [i \in 1..Len(frame) |->
             IF frame[i].label = row.label THEN row ELSE frame[i]]
    ELSE Append(frame, row)

\* frame.sort_values("Ticker"): the rows in the order of their labels.
RECURSIVE SortByLabel(_)
SortByLabel(frame) ==
    IF frame = <<>> THEN <<>>
    ELSE LET least == CHOOSE r \in Range(frame) :
                          \A q \in Range(frame) : LabelRank(r.label) <= LabelRank(q.label)
         IN  <<least>> \o SortByLabel(Drop(frame, least.label))

Holding(label, price, volume, quantity, cost, market_value) ==
    [label |-> label, Price |-> price, Volume |-> volume,
     Quantity |-> quantity, Cost |-> cost, MarketValue |-> market_value]

\* A row assigned from a Series that shares no label with the columns.
NaNRow(label) == Holding(label, None, None, None, None, None)

Watched(label, volume, date_added) ==
    [label |-> label, Volume |-> volume, DateAdded |-> date_added]

\* update_portfolio: refresh Price and Volume of the rows the snapshot has,
\* then Market Value = Quantity * Price.
update_portfolio(pf, data) ==
    IF Len(pf) = 0 THEN pf
    ELSE [i \in 1..Len(pf) |->
            LET r == pf[i]
                u == IF r.label \in DOMAIN data.rows
                     THEN [r EXCEPT !.Price = Some(data.rows[r.label].Price),
                                    !.Volume = Some(data.rows[r.label].Volume)]
                     ELSE r
            IN  [u EXCEPT !.MarketValue = Times(u.Quantity, u.Price)]]

\* update_watchlist: refresh the rows the snapshot has, drop the expired.
update_watchlist(wl, data, date) ==
    IF Len(wl) = 0 THEN wl
    ELSE LET refreshed ==
                 [i \in 1..Len(wl) |->
                     IF wl[i].label \in DOMAIN data.rows
                     THEN [wl[i] EXCEPT !.Volume = data.rows[wl[i].label].Volume]
                     ELSE wl[i]]
         IN  SelectSeq(refreshed,
                       LAMBDA r : ~(r.DateAdded + max_watchlist_days <= date))

\* The rows process_orders writes after its loop: `.loc["Market Value"]` and
\* `.loc["Gain ($)"]` name rows, not columns, and the Series assigned shares
\* no label with the columns, so each is a row of NaN.
WriteTotals(pf) == SetRow(SetRow(pf, NaNRow("Market Value")), NaNRow("Gain ($)"))

SoldAtNewCost(r, order) ==
    [r EXCEPT !.Price = order.fill_price,
              !.Quantity = Some(r.Quantity[1] - order.quantity),
              !.Cost = Some(Rat(order.fill_price[1], 1))]

\* Lines 71-72: a SELL fill on the row of its ticker.
Sold(r, order) ==
    [r EXCEPT !.Price = order.fill_price,
              !.Quantity = Some(r.Quantity[1] - order.quantity)]

\* The loop body of process_orders on the holdings table.
ApplyToPortfolio(pf, order) ==
    LET price == order.fill_price[1]
    IN  IF order.ticker \in Labels(pf)
        THEN LET r == RowOf(pf, order.ticker)
             IN  IF order.action = "SELL"
                 THEN IF Sold(r, order).Quantity[1] = 0
                      THEN Drop(pf, order.ticker)
                      ELSE SetRow(pf, Sold(r, order))
                 ELSE IF order.action = "BUY"
                 THEN SetRow(pf,
                        [r EXCEPT
                           !.Cost = Some(Rat(r.Price[1] * order.quantity
                                                + price * r.Quantity[1],
                                             r.Quantity[1] * order.quantity)),
                           !.Price = Some(price),
                           !.Quantity = Some(r.Quantity[1] + order.quantity)])
                 ELSE pf
        ELSE SortByLabel(SetRow(pf,
                 Holding(order.ticker, Some(price), None, Some(order.quantity),
                         Some(Rat(price, 1)), Some(order.quantity * price))))

\* The state Reversal.next works on: s holds orders, order_book, portfolio,
\* watchlist, equity_curve, executed_orders and raised.  An exception leaves
\* the state as the statements before it made it, and every later stage
\* passes a raised state on untouched.

\* process_orders, the loop.
RECURSIVE ProcessLoop(_, _, _)
ProcessLoop(s, ids, date) ==
    IF ids = <<>> THEN s
    ELSE ProcessLoop(
             [s EXCEPT
                 !.portfolio = ApplyToPortfolio(@, s.orders[Head(ids)]),
                 !.watchlist = Drop(@, s.orders[Head(ids)].ticker),
                 !.equity_curve = update_on_order(@, date, s.orders[Head(ids)])],
             Tail(ids), date)

process_orders(s, ids, date) ==
    [ProcessLoop(s, ids, date) EXCEPT !.portfolio = WriteTotals(@)]

\* place_order on the state.
Placed(s, order) ==
    [s EXCEPT !.orders = Append(@, order),
              !.order_book = place_order(s.orders, s.order_book, order).order_book]

ExitSignal(perf_week) == perf_week >= ExitPerfWeek \/ perf_week <= -ExitPerfWeek

\* exit_predicate: a Market SELL of the whole quantity for every row of the
\* portfolio whose Perf Week is out of the band.  data.at raises KeyError
\* on a label the snapshot does not have.
RECURSIVE ExitLoop(_, _, _, _)
ExitLoop(s, rows, data, date) ==
    IF rows = <<>> \/ s.raised # "none" THEN s
    ELSE IF Head(rows).label \notin DOMAIN data.rows
    THEN [s EXCEPT !.raised = "KeyError"]
    ELSE ExitLoop(
             IF ExitSignal(data.rows[Head(rows).label].PerfWeek)
             THEN Placed(s, MarketOrder(date, "SELL", Head(rows).label,
                                        Head(rows).Quantity[1]))
             ELSE s,
             Tail(rows), data, date)

exit_predicate(s, data, date) == ExitLoop(s, s.portfolio, data, date)

\* run_screen: the rows of the snapshot that pass the screen join the
\* watchlist, dated today, unless they are on it already.
Screened(data) ==
    {t \in DOMAIN data.rows :
        /\ data.rows[t].MarketCap > MinMarketCap
        /\ data.rows[t].PerfYear < 0
        /\ data.rows[t].PE > MinPE}

RECURSIVE AsFrame(_, _, _)
AsFrame(labels, data, date) ==
    IF labels = {} THEN <<>>
    ELSE LET t == CHOOSE x \in labels :
                      \A y \in labels : LabelRank(x) <= LabelRank(y)
         IN  <<Watched(t, data.rows[t].Volume, date)>>
                 \o AsFrame(labels \ {t}, data, date)

run_screen(wl, data, date) ==
    SortByLabel(wl \o AsFrame(Screened(data) \ Labels(wl), data, date))

\* entry_predicate, the loop: a Market BUY for every watchlist row with the
\* volume.
RECURSIVE EntryLoop(_, _, _)
EntryLoop(s, rows, date) ==
    IF rows = <<>> THEN s
    ELSE EntryLoop(
             IF Head(rows).Volume > MinVolume
             THEN Placed(s, MarketOrder(date, "BUY", Head(rows).label, BuyQuantity))
             ELSE s,
             Tail(rows), date)

PlaceEntries(s, date) == EntryLoop(s, s.watchlist, date)

entry_predicate(s, data, date) ==
    PlaceEntries([s EXCEPT !.watchlist = run_screen(@, data, date)], date)

\* Lines 52-53: update_portfolio and update_watchlist.
Refreshed(s, data, date) ==
    [s EXCEPT !.portfolio = update_portfolio(@, data),
              !.watchlist = update_watchlist(@, data, date)]

WithExecution(s, ex) ==
    [s EXCEPT !.orders = ex.orders, !.order_book = ex.order_book,
              !.executed_orders = ex.executed_orders, !.raised = ex.raised]

\* Lines 55-56: execute_orders with the Cash of the last ledger row.
Executed(s, data, date, kind) ==
    WithExecution(s, execute_orders(s.orders, s.order_book, data, date,
                                    s.equity_curve[Len(s.equity_curve)].Cash,
                                    kind))

\* Line 57.
Processed(s, date) ==
    IF s.raised # "none" THEN s ELSE process_orders(s, s.executed_orders, date)

\* Line 59.
Exited(s, data, date) ==
    IF s.raised # "none" THEN s ELSE exit_predicate(s, data, date)

\* Line 60.
Entered(s, data, date) ==
    IF s.raised # "none" THEN s ELSE entry_predicate(s, data, date)

\* clean_df subscripts the snapshot: TypeError on None.
clean_df(s, data) ==
    [s EXCEPT !.executed_orders = <<>>,
              !.raised = IF data.frame THEN "none" ELSE "TypeError"]

AfterClean(s, data, date, kind) ==
    IF s.raised # "none" THEN s
    ELSE Entered(
             Exited(
                 Processed(
                     Executed(Refreshed(s, data, date), data, date, kind),
                     date),
                 data, date),
             data, date)

\* Reversal.next
next(s, data, date, kind) == AfterClean(clean_df(s, data), data, date, kind)

----------------------------------------------------------------------------
(* The broker driven through its interface: any interleaving of place_order  *)
(* and execute_orders, with any arguments.                                   *)

CashValues == {30, 100}

\* The orders a caller constructs, by kind, side, ticker and quantity; the
\* empty ticker and the zero quantity are the invalid ones.  As everywhere
\* in the source, an order object is constructed, placed once and not
\* touched by its caller again.
OrderInputs(dt) ==
    { MarketOrder(dt, "BUY", "A", 2),
      MarketOrder(dt, "SELL", "A", 1),
      LimitOrder(dt, "BUY", "A", 1, 45),
      LimitOrder(dt, "SELL", "B", 2, 45),
      StopLimitOrder(dt, "BUY", "A", 1, 45),
      MarketOrder(dt, "BUY", "", 1),
      MarketOrder(dt, "SELL", "A", 0) }

NoCall == [op |-> "none", data |-> NoData, current_date |-> 0, cash |-> 0]
PlaceCall == [op |-> "place_order", data |-> NoData, current_date |-> 0, cash |-> 0]
ExecuteCall(data, date, cash) ==
    [op |-> "execute_orders", data |-> data, current_date |-> date, cash |-> cash]

InitRest ==
    /\ equity_curve = StatsHandler(1, 100)
    /\ n_fills = 0
    /\ fills = <<>>
    /\ portfolio = <<>>
    /\ watchlist = <<>>
    /\ current_date = 1
    /\ start_date = 1
    /\ end_date = 1
    /\ pc = "running"
    /\ visited = <<>>

InitBroker ==
    /\ orders = <<>>
    /\ order_book = EmptyBook
    /\ commission \in CommissionKinds
    /\ call = NoCall
    /\ executed_orders = <<>>
    /\ raised = "none"

Init == InitBroker /\ InitRest

\* The strategy constructs an order dated today and places it.
PlaceOrder ==
    /\ Len(orders) < MaxOrders
    /\ \E order \in OrderInputs(current_date) :
          LET r == place_order(orders, order_book, order)
          IN  /\ orders' = r.orders
              /\ order_book' = r.order_book
    /\ call' = PlaceCall
    /\ executed_orders' = <<>>
    /\ raised' = "none"
    /\ UNCHANGED <<commission, statsVars, strategyVars, runVars>>

\* execute_orders is called for today with any snapshot (or none) and any
\* cash.
ExecuteOrders ==
    /\ \E data \in Snapshots \cup {NoData} : \E cash \in CashValues :
          LET r == execute_orders(orders, order_book, data, current_date, cash,
                                  commission)
          IN  /\ orders' = r.orders
              /\ order_book' = r.order_book
              /\ executed_orders' = r.executed_orders
              /\ raised' = r.raised
              /\ call' = ExecuteCall(data, current_date, cash)
    /\ UNCHANGED <<commission, statsVars, strategyVars, runVars>>

\* `self.current_date += timedelta(days=1)`
NextDay ==
    /\ current_date < MaxDate
    /\ current_date' = current_date + 1
    /\ UNCHANGED <<brokerVars, statsVars, strategyVars, start_date, end_date,
                   pc, visited>>

Next == PlaceOrder \/ ExecuteOrders \/ NextDay

Spec == Init /\ [][Next]_vars

----------------------------------------------------------------------------
(* The ledger driven through its interface: any sequence of update_on_order  *)
(* calls with filled orders.                                                 *)

\* Filled orders of either side: one share without commission, two shares
\* with it.
FilledOrders(d) ==
    { [MarketOrder(d - 1, a, "A", 1 + c) EXCEPT
          !.status = "COMPLETE", !.fill_price = Some(20),
          !.executed_at = Some(d), !.commission_paid = c] :
      a \in {"BUY", "SELL"}, c \in {0, 1} }

InitStats ==
    /\ InitBroker
    /\ \E d \in Dates : equity_curve = StatsHandler(d, 100)
    /\ n_fills = 0
    /\ fills = <<>>
    /\ portfolio = <<>>
    /\ watchlist = <<>>
    /\ current_date = 1
    /\ start_date = 1
    /\ end_date = 1
    /\ pc = "running"
    /\ visited = <<>>

UpdateOnOrder ==
    /\ n_fills < MaxFills
    /\ \E d \in Dates : \E order \in FilledOrders(d) :
          /\ equity_curve' = update_on_order(equity_curve, d, order)
          /\ fills' = Append(fills, [date |-> d, order |-> order])
    /\ n_fills' = n_fills + 1
    /\ UNCHANGED <<brokerVars, strategyVars, runVars>>

NextStats == UpdateOnOrder

SpecStats == InitStats /\ [][NextStats]_vars

----------------------------------------------------------------------------
(* Backtest: the replay loop *)

NextCall(data, date, cash) ==
    [op |-> "next", data |-> data, current_date |-> date, cash |-> cash]

\* The starting cash: the default of the source, and one that affords a
\* single position.
RunCash == {5000, 100000}

\* Backtest.__init__ and the constructors it calls.
InitRun ==
    /\ start_date \in Dates
    /\ end_date \in Dates
    /\ current_date = start_date
    /\ \E cash \in RunCash : equity_curve = StatsHandler(start_date, cash)
    /\ InitBroker
    /\ portfolio = <<>>
    /\ watchlist = <<>>
    /\ pc = "running"
    /\ visited = <<>>
    /\ n_fills = 0
    /\ fills = <<>>

\* get_data: the day's snapshot, or None when the fetch fails (the
\* exception is caught and printed).
get_data == Snapshots \cup {NoData}

\* One pass of the loop of run: fetch, Strategy.next, advance.  An exception
\* of next leaves run.
Returned(r) ==
    /\ orders' = r.orders
    /\ order_book' = r.order_book
    /\ portfolio' = r.portfolio
    /\ watchlist' = r.watchlist
    /\ equity_curve' = r.equity_curve
    /\ executed_orders' = r.executed_orders
    /\ raised' = r.raised

Unpacked(r) ==
    /\ Returned(r)
    /\ pc' = IF r.raised = "none" THEN "running" ELSE "aborted"
    /\ current_date' = IF r.raised = "none" THEN current_date + 1
                       ELSE current_date

\* The state of the strategy, its broker and its ledger.
Strategy ==
    [orders |-> orders, order_book |-> order_book,
     portfolio |-> portfolio, watchlist |-> watchlist,
     equity_curve |-> equity_curve,
     executed_orders |-> executed_orders,
     raised |-> raised]

RunDay ==
    /\ pc = "running"
    /\ current_date <= end_date
    /\ \E data \in get_data :
          /\ Unpacked(next(Strategy, data, current_date, commission))
          /\ call' = NextCall(data, current_date,
                              equity_curve[Len(equity_curve)].Cash)
    /\ visited' = Append(visited, current_date)
    /\ UNCHANGED <<commission, start_date, end_date, n_fills, fills>>

\* The loop condition fails: run returns.
RunReturn ==
    /\ pc = "running"
    /\ current_date > end_date
    /\ pc' = "done"
    /\ UNCHANGED <<brokerVars, statsVars, strategyVars, current_date,
                   start_date, end_date, visited>>

NextRun == RunDay \/ RunReturn

SpecRun == InitRun /\ [][NextRun]_vars

----------------------------------------------------------------------------
(* Reversal driven through its interface: a caller places orders with the    *)
(* strategy's broker and calls next once a day, whatever next raised the day *)
(* before.                                                                   *)

\* The starting cash: one that affords a single two-share position, and one
\* that leaves cash after it.
StrategyCash == {100, 150}

\* Reversal.__init__
InitStrategy ==
    /\ InitBroker
    /\ \E cash \in StrategyCash : equity_curve = StatsHandler(1, cash)
    /\ portfolio = <<>>
    /\ watchlist = <<>>
    /\ current_date = 1
    /\ start_date = 1
    /\ end_date = MaxDate
    /\ pc = "running"
    /\ visited = <<>>
    /\ n_fills = 0
    /\ fills = <<>>

\* The orders placed with the strategy's broker: Market orders, as the
\* strategy's own are, of one or two shares.
MarketInputs(dt) ==
    { MarketOrder(dt, a, "A", q) : a \in {"BUY", "SELL"}, q \in {1, 2} }
        \cup { MarketOrder(dt, "BUY", "B", 1) }

\* broker.place_order of an order dated today.
PlaceMarketOrder ==
    /\ Len(orders) < MaxOrders
    /\ current_date <= MaxDate
    /\ \E order \in MarketInputs(current_date) :
          LET r == place_order(orders, order_book, order)
          IN  /\ orders' = r.orders
              /\ order_book' = r.order_book
    /\ call' = PlaceCall
    /\ executed_orders' = <<>>
    /\ raised' = "none"
    /\ UNCHANGED <<commission, statsVars, strategyVars, runVars>>

\* Reversal.next for today with the day's snapshot (or none); the day ends.
StrategyNext ==
    /\ current_date <= MaxDate
    /\ \E data \in get_data :
          /\ Returned(next(Strategy, data, current_date, commission))
          /\ call' = NextCall(data, current_date,
                              equity_curve[Len(equity_curve)].Cash)
    /\ current_date' = current_date + 1
    /\ visited' = Append(visited, current_date)
    /\ UNCHANGED <<commission, start_date, end_date, pc, n_fills, fills>>

NextStrategy == PlaceMarketOrder \/ StrategyNext

SpecStrategy == InitStrategy /\ [][NextStrategy]_vars

----------------------------------------------------------------------------
(* Helpers of the properties *)

Ids == 1..Len(orders)
NoDuplicates(seq) == \A i, j \in 1..Len(seq) : seq[i] = seq[j] => i = j

\* How many places of the order book hold the order.
Occurrences(id) ==
    Cardinality(UNION {{<<a, s, i>> : i \in {j \in 1..Len(order_book[a][s]) :
                                               order_book[a][s][j] = id}} :
                       <<a, s>> \in {"BUY", "SELL"} \X Statuses})

\* The last call was execute_orders on a business day with a snapshot.
ExecutedOnTradingDay ==
    /\ call.op = "execute_orders"
    /\ is_business_day(call.current_date)
    /\ call.data.frame

\* A step of execute_orders (place_order overwrites call; the clock leaves
\* the broker alone).
IsExecuteStep == call'.op = "execute_orders" /\ current_date' = current_date

\* The order was open and old enough to be evaluated by the last call, and
\* its ticker is in that call's snapshot.
Priced(id) ==
    /\ ExecutedOnTradingDay
    /\ orders[id].initiated_at < call.current_date
    /\ orders[id].ticker \in DOMAIN call.data.rows

Cost(id, price) ==
    orders[id].quantity * price
        + Commission(commission, orders[id].quantity, price)

\* open <= price <= close of the row, without the division:
\* open = close * 100 / (100 + from Open).
AtOrAboveOpen(row, price) == row.Price * 100 <= price * (100 + row.FromOpen)
AtOrBelowClose(row, price) == price <= row.Price

----------------------------------------------------------------------------
(* C1 *)

\* C1: every row of the equity curve, the one __init__ writes and the ones
\* update_on_order writes, has Total Value = Cash + Equity.
C1_LedgerInvariant ==
    \A i \in 1..Len(equity_curve) :
        equity_curve[i].TotalValue = equity_curve[i].Cash + equity_curve[i].Equity

\* Several fills were applied, one of them with non-zero equity.
C1_Witness ==
    /\ n_fills >= 2
    /\ Len(equity_curve) >= 2
    /\ equity_curve[Len(equity_curve)].Equity # 0
    /\ C1_LedgerInvariant

----------------------------------------------------------------------------
(* C2 *)

\* C2: every order the last execute_orders call filled, BUY or SELL, Market
\* or Limit, cost quantity * fill_price + commission <= the cash passed to
\* that call; and no order is ever cancelled: an order that is not COMPLETE
\* is OPEN and in the OPEN bucket of its action.
C2_FundsInvariant ==
    /\ \A id \in Range(executed_orders) :
          /\ orders[id].fill_price # None
          /\ Cost(id, orders[id].fill_price[1]) <= call.cash
    /\ \A id \in Ids :
          orders[id].status # "COMPLETE" =>
              /\ orders[id].status = "OPEN"
              /\ id \in Range(order_book[orders[id].action]["OPEN"])
    /\ \A a \in {"BUY", "SELL"} : order_book[a]["CANCELLED"] = <<>>

\* In one call a SELL order was filled and a Market order that was evaluated
\* failed the funds check and is still OPEN.
C2_Witness ==
    /\ \E id \in Range(executed_orders) : orders[id].action = "SELL"
    /\ \E id \in Ids :
          /\ Priced(id)
          /\ orders[id].kind = "Market"
          /\ orders[id].status = "OPEN"
          /\ Cost(id, OpenPrice(call.data, orders[id].ticker)) > call.cash
          /\ id \in Range(order_book[orders[id].action]["OPEN"])

----------------------------------------------------------------------------
(* C3 *)

\* C3: a call of execute_orders for a date that is not a trading day (a
\* weekend, or no snapshot for the date) returns the empty list, raises
\* nothing and leaves the order book and every order unchanged.
C3_NonTradingDay ==
    [][(IsExecuteStep
        /\ (~is_business_day(call'.current_date) \/ ~call'.data.frame))
       => /\ raised' = "none"
          /\ executed_orders' = <<>>
          /\ order_book' = order_book
          /\ orders' = orders]_vars

----------------------------------------------------------------------------
(* C4 *)

\* C4: every COMPLETE order was executed on a date after the date it was
\* placed, and every order the last call filled was placed before that
\* call's date.
C4_NeverSameDay ==
    /\ \A id \in Ids :
          orders[id].status = "COMPLETE" =>
              /\ orders[id].executed_at # None
              /\ orders[id].executed_at[1] > orders[id].initiated_at
    /\ \A id \in Range(executed_orders) :
          orders[id].initiated_at < call.current_date

\* A call filled one order and passed over an order placed the same day,
\* which it could otherwise have filled.
C4_Witness ==
    /\ executed_orders # <<>>
    /\ \E id \in Ids :
          /\ ExecutedOnTradingDay
          /\ orders[id].initiated_at = call.current_date
          /\ orders[id].status = "OPEN"
          /\ orders[id].kind = "Market"
          /\ orders[id].ticker \in DOMAIN call.data.rows
          /\ Cost(id, OpenPrice(call.data, orders[id].ticker)) <= call.cash

----------------------------------------------------------------------------
(* C5 *)

C5_MarketAtOpen ==
    \A id \in Range(executed_orders) :
        orders[id].kind = "Market" =>
            LET row == call.data.rows[orders[id].ticker]
            IN  /\ orders[id].fill_price # None
                /\ orders[id].fill_price[1] * (100 + row.FromOpen)
                       = row.Price * 100

C5_AtMostOnce ==
    /\ NoDuplicates(executed_orders)
    /\ \A a \in {"BUY", "SELL"} : NoDuplicates(order_book[a]["COMPLETE"])

C5_NotReturnedAgain ==
    IsExecuteStep =>
        \A id \in Ids :
            orders[id].status = "COMPLETE" => id \notin Range(executed_orders')

\* C5: a Market order the last call filled has fill_price = close /
\* (1 + from Open) of that call's snapshot; no order appears twice in a
\* result list or in a COMPLETE bucket, and an order that is COMPLETE is
\* not returned by a later call.
C5_MarketFillOnce ==
    /\ [](C5_MarketAtOpen /\ C5_AtMostOnce)
    /\ [][C5_NotReturnedAgain]_vars

\* A Market order was filled on a day whose open differs from its close,
\* and another order was COMPLETE before that call.
C5_Witness ==
    /\ \E id \in Range(executed_orders) :
          /\ orders[id].kind = "Market"
          /\ call.data.rows[orders[id].ticker].FromOpen # 0
    /\ \E id \in Ids :
          /\ orders[id].status = "COMPLETE"
          /\ id \notin Range(executed_orders)

----------------------------------------------------------------------------
(* C6 *)

LimitOutside(id, data) ==
    \/ ~AtOrAboveOpen(data.rows[orders[id].ticker], orders[id].limit_price[1])
    \/ ~AtOrBelowClose(data.rows[orders[id].ticker], orders[id].limit_price[1])

C6_LimitFill ==
    \A id \in Range(executed_orders) :
        orders[id].kind = "Limit" =>
            /\ orders[id].fill_price = orders[id].limit_price
            /\ ~LimitOutside(id, call.data)

C6_StaysOpen ==
    (IsExecuteStep /\ is_business_day(call'.current_date) /\ call'.data.frame) =>
        \A a \in {"BUY", "SELL"} : \A id \in Range(order_book[a]["OPEN"]) :
            (/\ orders[id].kind = "Limit"
             /\ orders[id].initiated_at < call'.current_date
             /\ orders[id].ticker \in DOMAIN call'.data.rows
             /\ LimitOutside(id, call'.data))
            => /\ id \in Range(order_book'[a]["OPEN"])
               /\ orders'[id] = orders[id]

\* C6: a Limit order the last call filled has fill_price = limit_price with
\* open <= limit_price <= close in that call's snapshot; a Limit order that
\* a call evaluates with its limit outside [open, close] stays in the OPEN
\* bucket, unchanged.
C6_LimitFillInRange ==
    /\ []C6_LimitFill
    /\ [][C6_StaysOpen]_vars

\* One call filled a Limit order and left OPEN a Limit order whose limit is
\* above that day's close.
C6_Witness ==
    /\ \E id \in Range(executed_orders) : orders[id].kind = "Limit"
    /\ \E id \in Ids :
          /\ Priced(id)
          /\ orders[id].kind = "Limit"
          /\ orders[id].status = "OPEN"
          /\ Cost(id, orders[id].limit_price[1]) <= call.cash
          /\ LimitOutside(id, call.data)

----------------------------------------------------------------------------
(* C7 *)

C7_Partition ==
    /\ \A id \in Ids :
          /\ Occurrences(id) = 1
          /\ id \in Range(order_book[orders[id].action][orders[id].status])
    /\ \A a \in {"BUY", "SELL"} : \A s \in Statuses :
          Range(order_book[a][s]) \subseteq Ids

C7_Transitions ==
    \A id \in Ids :
        /\ orders'[id].status # orders[id].status =>
              /\ orders[id].status = "OPEN"
              /\ orders'[id].status \in {"COMPLETE", "CANCELLED"}
        /\ orders[id].status \in {"COMPLETE", "CANCELLED"} =>
              /\ orders'[id] = orders[id]
              /\ id \in Range(order_book'[orders[id].action][orders[id].status])

\* C7: every order that entered the book is at exactly one place of the
\* book, in the bucket of its own action and status; a status changes only
\* from OPEN to COMPLETE or CANCELLED; a COMPLETE or CANCELLED order keeps
\* its bucket and its fields.
C7_OrderBookPartition ==
    /\ []C7_Partition
    /\ [][C7_Transitions]_vars

\* The book holds a COMPLETE order of one side and an OPEN order of the
\* other after a call that filled something.
C7_Witness ==
    /\ executed_orders # <<>>
    /\ \E a, b \in {"BUY", "SELL"} :
          /\ a # b
          /\ order_book[a]["COMPLETE"] # <<>>
          /\ order_book[b]["OPEN"] # <<>>

----------------------------------------------------------------------------
(* C8 *)

ValidOrder(order) == order.quantity > 0 /\ order.ticker # ""

\* C8: place_order rejects an order whose quantity is not > 0 or whose
\* ticker is empty with InvalidOrder, and such an order is in no bucket of
\* the order book.
C8_InvalidOrderRejected ==
    /\ \A id \in Ids : ~ValidOrder(orders[id]) => Occurrences(id) = 0
    /\ (call.op = "place_order" /\ ~ValidOrder(orders[Len(orders)]))
          => raised = "InvalidOrder"

----------------------------------------------------------------------------
(* C9 *)

\* The order would be filled if the last call evaluated it now.
Fillable(id) ==
    /\ Priced(id)
    /\ orders[id].status = "OPEN"
    /\ FillPrice(orders[id], call.data, call.cash, commission) # None

\* C9: a call of execute_orders on a trading day does not abort when the
\* ticker of an eligible order is absent from the snapshot: it raises
\* nothing, and it leaves OPEN no eligible order that its rules fill.
C9_MissingTickerContained ==
    ExecutedOnTradingDay =>
        /\ raised = "none"
        /\ \A id \in Ids : ~Fillable(id)

----------------------------------------------------------------------------
(* C10 *)

\* The dates from the start date on, one after the other.
InDateOrder(seq) == \A i \in 1..Len(seq) : seq[i] = start_date + i - 1

\* C10: Strategy.next is called once per date, in increasing order, for
\* every date from start_date to end_date by the time run returns; and a
\* day whose fetch fails (get_data returns None) does not abort the replay:
\* nothing is executed and the loop advances to the next date.
C10_ReplayVisitsEveryDate ==
    /\ InDateOrder(visited)
    /\ pc = "done" =>
          Len(visited) = IF end_date >= start_date
                         THEN end_date - start_date + 1 ELSE 0
    /\ (call.op = "next" /\ ~call.data.frame) =>
          /\ pc # "aborted"
          /\ executed_orders = <<>>
          /\ current_date = call.current_date + 1

----------------------------------------------------------------------------
(* C11 *)

\* The update_on_order calls so far were dated start_date or later, in
\* non-decreasing order.
NonDecreasingFills ==
    \A i \in 1..Len(fills) :
        /\ fills[i].date >= equity_curve[1].Date
        /\ i > 1 => fills[i - 1].date <= fills[i].date

\* C11: after __init__ and update_on_order calls with non-decreasing dates,
\* fills dated start_date included, no two rows of the equity curve carry
\* the same Date.
C11_OneEntryPerDate ==
    NonDecreasingFills =>
        \A i, j \in 1..Len(equity_curve) :
            equity_curve[i].Date = equity_curve[j].Date => i = j

----------------------------------------------------------------------------
(* C12 *)

LastFill == fills'[Len(fills')]

\* The row update_on_order wrote: the one labelled with the date of the call.
Written == RowOf(equity_curve', LastFill.date)

\* C12: update_on_order computes the row of its date from the last row: a
\* BUY takes quantity * fill_price + commission_paid out of Cash and adds
\* quantity * fill_price to Equity, a SELL adds quantity * fill_price -
\* commission_paid to Cash and takes quantity * fill_price out of Equity,
\* both add commission_paid to Commission Paid; every other row is left as
\* it was.
C12_ApplyFill ==
    [][fills' # fills =>
        LET o    == LastFill.order
            base == equity_curve[Len(equity_curve)]
            v    == o.quantity * o.fill_price[1]
        IN  /\ o.action = "BUY" =>
                  /\ Written.Cash = base.Cash - (v + o.commission_paid)
                  /\ Written.Equity = base.Equity + v
            /\ o.action = "SELL" =>
                  /\ Written.Cash = base.Cash + (v - o.commission_paid)
                  /\ Written.Equity = base.Equity - v
            /\ Written.CommissionPaid = base.CommissionPaid + o.commission_paid
            /\ \A i \in 1..Len(equity_curve) :
                  equity_curve[i].label # LastFill.date =>
                      equity_curve'[i] = equity_curve[i]]_vars

\* A two-share BUY and a two-share SELL with commission were applied on
\* different dates, after an earlier row.
C12_Witness ==
    /\ Len(equity_curve) >= 3
    /\ \E i, j \in 1..Len(fills) :
          /\ fills[i].order.action = "BUY"
          /\ fills[j].order.action = "SELL"
          /\ fills[i].order.quantity = 2
          /\ fills[j].order.commission_paid > 0
          /\ fills[i].date < fills[j].date

----------------------------------------------------------------------------
(* C13 *)

\* The step is a call of next in which process_orders ran: there was a
\* snapshot, and execute_orders found the ticker of every order it priced.
ProcessRan ==
    /\ call'.op = "next"
    /\ call'.data.frame
    /\ is_business_day(call'.current_date) =>
          \A a \in {"BUY", "SELL"} :
              \A k \in 1..Len(order_book[a]["OPEN"]) :
                  LET o == orders[order_book[a]["OPEN"][k]]
                  IN  o.initiated_at < call'.current_date
                          => o.ticker \in DOMAIN call'.data.rows

\* The fills of the call on one ticker.
FillsOf(t) == SelectSeq(executed_orders', LAMBDA id : orders'[id].ticker = t)

\* C13: a single SELL fill on a held ticker takes its quantity off the
\* holding; the row is dropped when nothing is left, and otherwise stays with
\* the reduced quantity and the Cost it had.
C13_SellFill ==
    [][ProcessRan =>
        \A i \in 1..Len(portfolio) :
            LET t == portfolio[i].label
                f == FillsOf(t)
            IN  (Len(f) = 1 /\ orders'[f[1]].action = "SELL") =>
                    LET left == portfolio[i].Quantity[1] - orders'[f[1]].quantity
                    IN  IF left = 0 THEN t \notin Labels(portfolio')
                        ELSE /\ t \in Labels(portfolio')
                             /\ RowOf(portfolio', t).Quantity = Some(left)
                             /\ RowOf(portfolio', t).Cost = portfolio[i].Cost]_vars

\* next has just processed a SELL of one share of A out of a holding of two:
\* one share is left, at the Cost of the BUY.
C13_Witness ==
    /\ call.op = "next"
    /\ \E k \in 1..Len(executed_orders) :
          /\ orders[executed_orders[k]].action = "SELL"
          /\ orders[executed_orders[k]].ticker = "A"
          /\ orders[executed_orders[k]].quantity = 1
    /\ \E id \in 1..Len(orders) :
          /\ orders[id].action = "BUY"
          /\ orders[id].status = "COMPLETE"
          /\ orders[id].quantity = 2
          /\ "A" \in Labels(portfolio)
          /\ RowOf(portfolio, "A").Quantity = Some(1)
          /\ RowOf(portfolio, "A").Cost = Some(Rat(orders[id].fill_price[1], 1))

----------------------------------------------------------------------------
(* C14 *)

\* C14 as stated: in the list an execute_orders call returns, every BUY
\* fill comes before every SELL fill.
C14_BuyBeforeSell ==
    \A i, j \in 1..Len(executed_orders) :
        (orders[executed_orders[i]].action = "SELL"
            /\ orders[executed_orders[j]].action = "BUY") => j < i

\* C14, amended: the SELL bucket is evaluated before the BUY bucket, so in
\* the list an execute_orders call returns every SELL fill comes before
\* every BUY fill.
C14_SellBeforeBuy ==
    \A i, j \in 1..Len(executed_orders) :
        (orders[executed_orders[i]].action = "SELL"
            /\ orders[executed_orders[j]].action = "BUY") => i < j

\* One call filled a SELL and a BUY, the BUY having been placed first.
C14_Witness ==
    /\ ExecutedOnTradingDay
    /\ \E i, j \in 1..Len(executed_orders) :
          /\ orders[executed_orders[i]].action = "SELL"
          /\ orders[executed_orders[j]].action = "BUY"
          /\ executed_orders[j] < executed_orders[i]

----------------------------------------------------------------------------
(* C15 *)

\* C15: an order has its fill_price, and its executed_at, exactly when its
\* status is COMPLETE, and has paid commission only when it is COMPLETE.
C15_OrderFields ==
    \A id \in Ids :
        /\ orders[id].fill_price # None <=> orders[id].status = "COMPLETE"
        /\ orders[id].executed_at # None <=> orders[id].status = "COMPLETE"
        /\ orders[id].commission_paid > 0 => orders[id].status = "COMPLETE"

\* One call filled an order that paid commission and priced another that
\* it left OPEN.
C15_Witness ==
    /\ ExecutedOnTradingDay
    /\ \E id \in Ids :
          /\ orders[id].status = "COMPLETE"
          /\ orders[id].commission_paid > 0
          /\ orders[id].executed_at = Some(call.current_date)
    /\ \E id \in Ids :
          /\ orders[id].status = "OPEN"
          /\ Priced(id)

----------------------------------------------------------------------------
(* C16 *)

\* The rows of the portfolio that hold a position: the rows with a Quantity
\* (the rows of NaN that process_orders writes after its loop have none).
Positions == {i \in 1..Len(portfolio) : portfolio[i].Quantity # None}

\* C16: every position of the portfolio is keyed by a ticker that has had a
\* BUY fill; a SELL fill never creates one.
C16_HoldingFromBuy ==
    \A i \in Positions :
        \E id \in Ids :
            /\ orders[id].ticker = portfolio[i].label
            /\ orders[id].action = "BUY"
            /\ orders[id].status = "COMPLETE"

----------------------------------------------------------------------------
(* C17 *)

\* Quantity * Price summed over the rows that have both.
RECURSIVE HoldingsValue(_)
HoldingsValue(pf) ==
    IF pf = <<>> THEN 0
    ELSE (IF Head(pf).Quantity # None /\ Head(pf).Price # None
          THEN Head(pf).Quantity[1] * Head(pf).Price[1]
          ELSE 0) + HoldingsValue(Tail(pf))

\* C17: after next on a day with a snapshot, the Equity of the last row of
\* the equity curve is the sum of Quantity * Price over the holdings (0 when
\* there are none).  Stated for the runs in which only BUY orders were
\* placed, to keep the SELL fills of C16 apart.
OnlyBuys == \A id \in Ids : orders[id].action = "BUY"

C17_EquityMarkedToMarket ==
    (call.op = "next" /\ call.data.frame /\ OnlyBuys) =>
        equity_curve[Len(equity_curve)].Equity = HoldingsValue(portfolio)

----------------------------------------------------------------------------
(* C18 *)

\* Cash + Equity + Commission Paid of a row is the cash __init__ was given.
Conserved(row) ==
    /\ row.Cash + row.Equity + row.CommissionPaid = equity_curve[1].Cash
    /\ row.TotalValue = equity_curve[1].Cash - row.CommissionPaid

C18_Balance == \A i \in 1..Len(equity_curve) : Conserved(equity_curve[i])

C18_NeverIncreases ==
    equity_curve'[Len(equity_curve')].TotalValue
        <= equity_curve[Len(equity_curve)].TotalValue

\* C18: after __init__ and any update_on_order calls, Cash + Equity +
\* Commission Paid of the latest row (of every row) equals the initial cash,
\* Total Value is the initial cash less the commission paid so far, and the
\* Total Value of the latest row never increases from one call to the next.
C18_Conservation == [](C18_Balance) /\ [][C18_NeverIncreases]_vars

\* Fills of both sides were applied, with commission, and shares are held.
C18_Witness ==
    /\ \E i, j \in 1..Len(fills) :
          /\ fills[i].order.action = "BUY"
          /\ fills[j].order.action = "SELL"
    /\ equity_curve[Len(equity_curve)].CommissionPaid >= 2
    /\ equity_curve[Len(equity_curve)].Equity # 0
    /\ C18_Balance

----------------------------------------------------------------------------
(* C19 *)

\* C19: with next passing the Cash of the last row to execute_orders and
\* applying every fill it returns, no row of the equity curve has negative
\* Cash.
C19_CashNeverNegative ==
    \A i \in 1..Len(equity_curve) : equity_curve[i].Cash >= 0

----------------------------------------------------------------------------
(* C20 *)

\* C20: in the replay, every row of the holdings table has a Quantity, and
\* it is positive.
C20_QuantityPositive ==
    \A i \in 1..Len(portfolio) :
        /\ portfolio[i].Quantity # None
        /\ portfolio[i].Quantity[1] > 0

====
